---- MODULE Spec2Model ----
(***************************************************************************)
(* salt/states/kmod.py: the kmod.present and kmod.absent state functions.  *)
(*                                                                         *)
(* A state declaration (function, name, mods, persist, comment, test) is   *)
(* applied by the state engine once per reconciliation pass.  Each pass    *)
(* runs the whole function against the minion's module inventory; the      *)
(* execution-module collaborators (kmod.mod_list, kmod.available,          *)
(* kmod.load, kmod.remove) are the environment.                            *)
(***************************************************************************)
EXTENDS Naturals, Sequences, FiniteSets, TLC

VARIABLES
    loaded,     \* kmod.mod_list(): the modules now loaded
    persisted,  \* kmod.mod_list(True): the modules configured to load at boot
    avail,      \* kmod.available()
    decl,       \* the state declaration being applied
    last,       \* the most recent pass, <<>> before the first
    prev        \* what the pass before it returned and did, <<>> if none

vars == <<loaded, persisted, avail, decl, last, prev>>

(***************************************************************************)
(* Bounds of the model.                                                    *)
(***************************************************************************)
\* longest desired list (the mods argument) drawn for a declaration
MaxLen == 2

\* Module names.  Requestable names may appear in a declaration; the other
\* names only appear in what the loader / unloader report (dependencies).
Requestable == {"a", "b"}
Mods == Requestable \cup {"c"}
ModOrder == <<"a", "b", "c">>

\* ret["result"]: True, False, or None (the dry-run sentinel)
ResTrue == "True"
ResFalse == "False"
ResNone == "None"

(***************************************************************************)
(* Python helpers.                                                         *)
(***************************************************************************)
\* set(seq)
SetOf(s) == {s[i] : i \in 1..Len(s)}

\* list(<set>): some list holding each element once.  Used where only the
\* text of a comment depends on the order; the loops take their order as an
\* explicit input instead.
ListOf(S) == SelectSeq(ModOrder, LAMBDA m : m \in S)

\* every iteration order of a set: the lists that hold each element once
Orders(S) == {o \in [1..Cardinality(S) -> S] : SetOf(o) = S}

\* the desired list with later duplicates dropped
RECURSIVE Dedup(_)
Dedup(s) ==
    IF s = <<>> THEN <<>>
    ELSE LET front == Dedup(SubSeq(s, 1, Len(s) - 1))
             x == s[Len(s)]
         IN IF x \in SetOf(front) THEN front ELSE Append(front, x)

\* What kmod.load / kmod.remove hand back: a list of module names, or
\* anything else (an error string).
ListResp(s) == [isList |-> TRUE, val |-> s]
ErrResp == [isList |-> FALSE, val |-> <<"error">>]
Responses == {ListResp(ListOf(S)) : S \in SUBSET Mods} \cup {ErrResp}

\* _append_comment: comments are kept as the list of appended fragments
\* (the joined text is the fragments separated by newlines).
Fragment(text, mods) == [text |-> text, mods |-> mods]
AppendComment(comment, text, mods) == Append(comment, Fragment(text, mods))

\* if not isinstance(mods, (list, tuple)): mods = [name]
NormMods(d) == IF d.modsIsList THEN d.mods ELSE <<d.name>>

(***************************************************************************)
(* present                                                                 *)
(***************************************************************************)
\* loaded_mods after the persist branch: with persist, only modules that are
\* both loaded and persisted count as present
\* (slips in the set arithmetic: difference, union, branch forgotten)
PresentCurrentMinus(ld, ps, persist) == IF persist THEN ld \ ps ELSE ld
PresentCurrentUnion(ld, ps, persist) == IF persist THEN ld \cup ps ELSE ld
PresentCurrentLoadedOnly(ld, ps, persist) == ld
PresentCurrent(ld, ps, persist) == IF persist THEN ld \cap ps ELSE ld

\* already_loaded = list(set(loaded_mods) & set(mods))
AlreadyLoaded(loaded_mods, mods) == loaded_mods \cap SetOf(mods)

\* if len(already_loaded) == len(mods): return ret
AllAlreadyLoaded(already_loaded, mods) == Cardinality(already_loaded) = Len(mods)

\* not_loaded = list(set(mods) - set(already_loaded))
NotLoaded(mods, already_loaded) == SetOf(mods) \ already_loaded

\* unavailable = list(set(not_loaded) - set(__salt__["kmod.available"]()))
Unavailable(not_loaded, av) == not_loaded \ av

\* available = list(set(not_loaded) - set(unavailable))
Available(not_loaded, unavailable) == not_loaded \ unavailable

\* ret["changes"][module] = <what> for every module of a returned list
Record(changes, names, what) ==
    [m \in (DOMAIN changes) \cup names |->
        IF m \in names THEN what ELSE changes[m]]

NoChanges == [m \in {} |-> "loaded"]

\* the comment before the loop: "already present" for already_loaded
AlreadyComment(already_loaded) ==
    IF Cardinality(already_loaded) = 1
    THEN AppendComment(<<>>, "Kernel module {} is already present",
                       ListOf(already_loaded))
    ELSE IF Cardinality(already_loaded) > 1
    THEN AppendComment(<<>>, "Kernel modules {} are already present",
                       ListOf(already_loaded))
    ELSE <<>>

\* the dry-run branch's comment
TestLoadComment(comment, not_loaded) ==
    IF Cardinality(not_loaded) = 1
    THEN AppendComment(comment, "Kernel module {} is set to be loaded",
                       ListOf(not_loaded))
    ELSE AppendComment(comment, "Kernel modules {} are set to be loaded",
                       ListOf(not_loaded))

UnavailableComment(comment, unavailable) ==
    IF unavailable = {} THEN comment
    ELSE IF Cardinality(unavailable) = 1
    THEN AppendComment(comment, "Kernel module {} is unavailable",
                       ListOf(unavailable))
    ELSE AppendComment(comment, "Kernel modules {} are unavailable",
                       ListOf(unavailable))

\* The loop's locals: ret["result"], ret["changes"], loaded["yes"/"no"/
\* "failed"], loaded_by_dependency, and the kmod.load calls made so far.
LoopStart(result) ==
    [result |-> result, changes |-> NoChanges, yes |-> <<>>, no |-> <<>>,
     failed |-> <<>>, dep |-> <<>>, calls |-> <<>>]

\* (slip: an empty list from kmod.load is not counted as a failure)
LoadStepEmptyOk(st, mod, r, persist) ==
    IF mod \in SetOf(st.dep)
    THEN [st EXCEPT !.yes = Append(@, mod)]
    ELSE LET called == [st EXCEPT !.calls =
                            Append(@, [mod |-> mod, persist |-> persist, ret |-> r])]
         IN IF r.isList
            THEN IF Len(r.val) > 0
                 THEN [called EXCEPT
                          !.changes = Record(@, SetOf(r.val), "loaded"),
                          !.dep = @ \o SelectSeq(r.val, LAMBDA m : m # mod),
                          !.yes = Append(@, mod)]
                 ELSE [called EXCEPT !.no = Append(@, mod)]
            ELSE [called EXCEPT !.result = ResFalse,
                                !.failed = Append(@, [mod |-> mod, msg |-> r.val])]

\* (slip: loaded_by_dependency is not consulted)
LoadStepNoSkip(st, mod, r, persist) ==
    LET called == [st EXCEPT !.calls =
                       Append(@, [mod |-> mod, persist |-> persist, ret |-> r])]
    IN IF r.isList
       THEN IF Len(r.val) > 0
            THEN [called EXCEPT
                     !.changes = Record(@, SetOf(r.val), "loaded"),
                     !.dep = @ \o SelectSeq(r.val, LAMBDA m : m # mod),
                     !.yes = Append(@, mod)]
            ELSE [called EXCEPT !.result = ResFalse, !.no = Append(@, mod)]
       ELSE [called EXCEPT !.result = ResFalse,
                           !.failed = Append(@, [mod |-> mod, msg |-> r.val])]

\* (slip: only the requested module is entered in ret["changes"])
LoadStepOwnOnly(st, mod, r, persist) ==
    IF mod \in SetOf(st.dep)
    THEN [st EXCEPT !.yes = Append(@, mod)]
    ELSE LET called == [st EXCEPT !.calls =
                            Append(@, [mod |-> mod, persist |-> persist, ret |-> r])]
         IN IF r.isList
            THEN IF Len(r.val) > 0
                 THEN [called EXCEPT
                          !.changes = Record(@, {mod}, "loaded"),
                          !.dep = @ \o SelectSeq(r.val, LAMBDA m : m # mod),
                          !.yes = Append(@, mod)]
                 ELSE [called EXCEPT !.result = ResFalse,
                                     !.no = Append(@, mod)]
            ELSE [called EXCEPT !.result = ResFalse,
                                !.failed = Append(@, [mod |-> mod, msg |-> r.val])]

\* One iteration of "for mod in available": r is what kmod.load(mod, persist)
\* returns if it is called.
LoadStep(st, mod, r, persist) ==
    IF mod \in SetOf(st.dep)
    THEN [st EXCEPT !.yes = Append(@, mod)]
    ELSE LET called == [st EXCEPT !.calls =
                            Append(@, [mod |-> mod, persist |-> persist, ret |-> r])]
         IN IF r.isList
            THEN IF Len(r.val) > 0
                 THEN [called EXCEPT
                          !.changes = Record(@, SetOf(r.val), "loaded"),
                          !.dep = @ \o SelectSeq(r.val, LAMBDA m : m # mod),
                          !.yes = Append(@, mod)]
                 ELSE [called EXCEPT !.result = ResFalse,
                                     !.no = Append(@, mod)]
            ELSE [called EXCEPT !.result = ResFalse,
                                !.failed = Append(@, [mod |-> mod, msg |-> r.val])]

\* (slip: the loop stops at the first module that fails to load)
RECURSIVE LoadLoopAbort(_, _, _, _)
LoadLoopAbort(order, resp, persist, st) ==
    IF order = <<>> \/ st.result = ResFalse THEN st
    ELSE LoadLoopAbort(Tail(order), resp, persist,
                       LoadStep(st, Head(order), resp[Head(order)], persist))

\* for mod in available, in the iteration order `order`
RECURSIVE LoadLoop(_, _, _, _)
LoadLoop(order, resp, persist, st) ==
    IF order = <<>> THEN st
    ELSE LoadLoop(Tail(order), resp, persist,
                  LoadStep(st, Head(order), resp[Head(order)], persist))

\* "Update comment with results"
RECURSIVE FailedComments(_, _, _)
FailedComments(comment, failed, text) ==
    IF failed = <<>> THEN comment
    ELSE FailedComments(AppendComment(comment, text, <<Head(failed).mod>>),
                        Tail(failed), text)

ResultComments(comment, st, one, many, noOne, noMany, failedText) ==
    LET c1 == IF Len(st.yes) = 1 THEN AppendComment(comment, one, st.yes)
              ELSE IF Len(st.yes) > 1 THEN AppendComment(comment, many, st.yes)
              ELSE comment
        c2 == IF Len(st.no) = 1 THEN AppendComment(c1, noOne, st.no) ELSE c1
        c3 == IF Len(st.no) > 1 THEN AppendComment(c2, noMany, st.no) ELSE c2
    IN FailedComments(c3, st.failed, failedText)

\* What one call returns, with the locals of the call.
Outcome(fun, result, changes, comment, satisfied, todo, unavailable, st) ==
    [fun |-> fun, result |-> result, changes |-> changes, comment |-> comment,
     satisfied |-> satisfied, todo |-> todo, unavailable |-> unavailable,
     yes |-> st.yes, no |-> st.no, failed |-> st.failed, calls |-> st.calls]

\* The modules the loop of present iterates over; empty when present returns
\* before the loop (everything already loaded, or dry-run).
PresentLoopSet(d, ld, ps, av) ==
    LET mods == NormMods(d)
        already_loaded == AlreadyLoaded(PresentCurrent(ld, ps, d.persist), mods)
        not_loaded == NotLoaded(mods, already_loaded)
    IN IF AllAlreadyLoaded(already_loaded, mods) \/ d.test THEN {}
       ELSE Available(not_loaded, Unavailable(not_loaded, av))

\* present(name, persist, mods) with __opts__["test"] = d.test, against the
\* inventory (ld, ps, av); the loop runs in `order` and kmod.load answers resp.
present(d, ld, ps, av, order, resp) ==
    LET mods == NormMods(d)
        already_loaded == AlreadyLoaded(PresentCurrent(ld, ps, d.persist), mods)
        c0 == AlreadyComment(already_loaded)
        not_loaded == NotLoaded(mods, already_loaded)
        unavailable == Unavailable(not_loaded, av)
        st == LoadLoop(order, resp, d.persist,
                       LoopStart(IF unavailable # {} THEN ResFalse ELSE ResTrue))
    IN IF AllAlreadyLoaded(already_loaded, mods)
       THEN Outcome("present", ResTrue, NoChanges, c0, already_loaded, {}, {},
                    LoopStart(ResTrue))
       ELSE IF d.test
       THEN Outcome("present", ResNone, NoChanges,
                    TestLoadComment(c0, not_loaded), already_loaded,
                    not_loaded, {}, LoopStart(ResNone))
       ELSE Outcome("present", st.result, st.changes,
                    ResultComments(UnavailableComment(c0, unavailable), st,
                        "Loaded kernel module {}", "Loaded kernel modules {}",
                        "Failed to load kernel module {}",
                        "Failed to load kernel modules {}",
                        "Failed to load kernel module {}: {}"),
                    already_loaded, not_loaded, unavailable, st)

(***************************************************************************)
(* absent                                                                  *)
(***************************************************************************)
\* loaded_mods after the persist branch: with persist, a module that is
\* loaded or persisted counts as present
AbsentCurrent(ld, ps, persist) == IF persist THEN ld \cup ps ELSE ld

\* to_unload = list(set(mods) & set(loaded_mods))
ToUnload(mods, loaded_mods) == SetOf(mods) \cap loaded_mods

\* One iteration of "for mod in to_unload": r is what
\* kmod.remove(mod, persist, comment) returns.
UnloadStep(st, mod, r, persist, comment) ==
    LET called == [st EXCEPT !.calls =
                       Append(@, [mod |-> mod, persist |-> persist,
                                  comment |-> comment, ret |-> r])]
    IN IF r.isList
       THEN IF Len(r.val) > 0
            THEN [called EXCEPT
                     !.changes = Record(@, SetOf(r.val), "removed"),
                     !.yes = Append(@, mod)]
            ELSE [called EXCEPT !.result = ResFalse, !.no = Append(@, mod)]
       ELSE [called EXCEPT !.result = ResFalse,
                           !.failed = Append(@, [mod |-> mod, msg |-> r.val])]

\* (slip: the loop stops at the first module that fails to unload)
RECURSIVE UnloadLoopAbort(_, _, _, _, _)
UnloadLoopAbort(order, resp, persist, comment, st) ==
    IF order = <<>> \/ st.result = ResFalse THEN st
    ELSE UnloadLoopAbort(Tail(order), resp, persist, comment,
             UnloadStep(st, Head(order), resp[Head(order)], persist, comment))

\* for mod in to_unload, in the iteration order `order`
RECURSIVE UnloadLoop(_, _, _, _, _)
UnloadLoop(order, resp, persist, comment, st) ==
    IF order = <<>> THEN st
    ELSE UnloadLoop(Tail(order), resp, persist, comment,
             UnloadStep(st, Head(order), resp[Head(order)], persist, comment))

TestRemoveComment(to_unload) ==
    IF Cardinality(to_unload) = 1
    THEN AppendComment(<<>>, "Kernel module {} is set to be removed",
                       ListOf(to_unload))
    ELSE AppendComment(<<>>, "Kernel modules {} are set to be removed",
                       ListOf(to_unload))

\* the else branch: ret["comment"] = "... already removed"
AlreadyRemovedComment(mods) ==
    IF Len(mods) = 1
    THEN <<Fragment("Kernel module {} is already removed", mods)>>
    ELSE <<Fragment("Kernel modules {} are already removed", mods)>>

\* The modules the loop of absent iterates over; empty in dry-run.
AbsentLoopSet(d, ld, ps) ==
    IF d.test THEN {}
    ELSE ToUnload(NormMods(d), AbsentCurrent(ld, ps, d.persist))

\* absent(name, persist, comment, mods) with __opts__["test"] = d.test
absent(d, ld, ps, order, resp) ==
    LET mods == NormMods(d)
        to_unload == ToUnload(mods, AbsentCurrent(ld, ps, d.persist))
        st == UnloadLoop(order, resp, d.persist, d.comment, LoopStart(ResTrue))
    IN IF to_unload # {}
       THEN IF d.test
            THEN Outcome("absent", ResNone, NoChanges,
                         TestRemoveComment(to_unload), {}, to_unload, {},
                         LoopStart(ResNone))
            ELSE Outcome("absent", st.result, st.changes,
                         ResultComments(<<>>, st,
                             "Removed kernel module {}",
                             "Removed kernel modules {}",
                             "Failed to remove kernel module {}",
                             "Failed to remove kernel modules {}",
                             "Failed to remove kernel module {}: {}"),
                         {}, to_unload, {}, st)
       ELSE Outcome("absent", ResTrue, NoChanges, AlreadyRemovedComment(mods),
                    {}, {}, {}, LoopStart(ResTrue))

(***************************************************************************)
(* The collaborators' effect on the inventory.  A kmod.load call that       *)
(* returns a non-empty list leaves the module it was called for and the    *)
(* modules it returns loaded, and persisted when persist is set; a         *)
(* kmod.remove call that returns a non-empty list leaves them unloaded,    *)
(* and not persisted when persist is set.                                  *)
(***************************************************************************)
Touched(calls) ==
    UNION {IF calls[i].ret.isList /\ Len(calls[i].ret.val) > 0
           THEN {calls[i].mod} \cup SetOf(calls[i].ret.val) ELSE {}
           : i \in 1..Len(calls)}

(***************************************************************************)
(* The state machine: one declaration, applied once per pass.              *)
(***************************************************************************)
Lists == UNION {[1..n -> Requestable] : n \in 0..MaxLen}

Decls ==
    {[fun |-> f, name |-> n, modsIsList |-> FALSE, mods |-> <<>>,
      persist |-> p, comment |-> c, test |-> t] :
        f \in {"present", "absent"}, n \in Requestable,
        p \in BOOLEAN, c \in BOOLEAN, t \in BOOLEAN}
    \cup
    {[fun |-> f, name |-> "id", modsIsList |-> TRUE, mods |-> l,
      persist |-> p, comment |-> c, test |-> t] :
        f \in {"present", "absent"}, l \in Lists,
        p \in BOOLEAN, c \in BOOLEAN, t \in BOOLEAN}

Init ==
    /\ loaded \in SUBSET Requestable
    /\ persisted \in SUBSET Requestable
    /\ avail \in SUBSET Requestable
    /\ decl \in {d \in Decls : d.fun = "present" => d.comment}
    /\ last = <<>>
    /\ prev = <<>>

Pass(out, order, resp) ==
    [pre |-> [loaded |-> loaded, persisted |-> persisted, avail |-> avail],
     order |-> order, resp |-> resp, out |-> out]

\* the summary kept of the pass that the next one follows
Before ==
    IF last = <<>> THEN <<>>
    ELSE <<[result |-> last[1].out.result, ncalls |-> Len(last[1].out.calls)]>>

Present ==
    /\ decl.fun = "present"
    /\ LET todo == PresentLoopSet(decl, loaded, persisted, avail)
       IN \E order \in Orders(todo), resp \in [todo -> Responses] :
            LET out == present(decl, loaded, persisted, avail, order, resp)
            IN /\ last' = <<Pass(out, order, resp)>>
               /\ prev' = Before
               /\ loaded' = loaded \cup Touched(out.calls)
               /\ persisted' = IF decl.persist
                               THEN persisted \cup Touched(out.calls)
                               ELSE persisted
    /\ UNCHANGED <<avail, decl>>

Absent ==
    /\ decl.fun = "absent"
    /\ LET todo == AbsentLoopSet(decl, loaded, persisted)
       IN \E order \in Orders(todo), resp \in [todo -> Responses] :
            LET out == absent(decl, loaded, persisted, order, resp)
            IN /\ last' = <<Pass(out, order, resp)>>
               /\ prev' = Before
               /\ loaded' = loaded \ Touched(out.calls)
               /\ persisted' = IF decl.persist
                               THEN persisted \ Touched(out.calls)
                               ELSE persisted
    /\ UNCHANGED <<avail, decl>>

Next == Present \/ Absent

Spec == Init /\ [][Next]_vars

(***************************************************************************)
(* Properties.  They speak about the most recent pass: its inputs are decl *)
(* and the inventory it read (pre), its outputs the returned record and    *)
(* the collaborator calls it made.                                         *)
(***************************************************************************)
Ran(fun) == last # <<>> /\ decl.fun = fun
L == last[1]
Requested == SetOf(NormMods(decl))

\* the effective current set, from the inventory the pass read
EffPresent == IF decl.persist THEN L.pre.loaded \cap L.pre.persisted
              ELSE L.pre.loaded
EffAbsent == IF decl.persist THEN L.pre.loaded \cup L.pre.persisted
             ELSE L.pre.loaded

CallIdx == 1..Len(L.out.calls)
CalledMods == {L.out.calls[i].mod : i \in CallIdx}
CallFailed(i) == ~L.out.calls[i].ret.isList \/ Len(L.out.calls[i].ret.val) = 0
Returned(i) == IF L.out.calls[i].ret.isList THEN SetOf(L.out.calls[i].ret.val)
               ELSE {}
\* position of a module in the loop's iteration order
Pos(m) == CHOOSE i \in 1..Len(L.order) : L.order[i] = m
\* m was returned by a loader call made before the loop reached m
ReturnedEarlier(m) ==
    \E i \in CallIdx : /\ m \in Returned(i)
                       /\ L.out.calls[i].mod # m
                       /\ Pos(L.out.calls[i].mod) < Pos(m)

\* C1: with dry-run off, the result of present / absent is never None, and
\* it is False exactly when a requested module was unavailable (present) or
\* a load / unload call returned an empty list or a non-list.
C1_ResultIsConjunction ==
    (last # <<>> /\ ~decl.test) =>
        /\ L.out.result \in {ResTrue, ResFalse}
        /\ (L.out.result = ResFalse) <=>
              \/ decl.fun = "present" /\ (Requested \ EffPresent) \ L.pre.avail # {}
              \/ \E i \in CallIdx : CallFailed(i)

\* a pass that failed for one module and still loaded or removed another
C1_Witness ==
    /\ last # <<>> /\ ~decl.test
    /\ L.out.result = ResFalse
    /\ L.out.yes # <<>>
    /\ \E i \in CallIdx : CallFailed(i)

\* C2: in dry-run mode present / absent call no collaborator, return no
\* changes, and return None when a requested module needs action, else True.
C2_DryRun ==
    (last # <<>> /\ decl.test) =>
        /\ L.out.calls = <<>>
        /\ DOMAIN L.out.changes = {}
        /\ L.out.result =
             IF \/ decl.fun = "present" /\ Requested \ EffPresent # {}
                \/ decl.fun = "absent" /\ Requested \cap EffAbsent # {}
             THEN ResNone ELSE ResTrue

C4_LoadsExactlyMissing ==
    (Ran("present") /\ ~decl.test) =>
        LET A == Requested \cap EffPresent
            B == Requested \ EffPresent
        IN /\ L.out.satisfied = A
           /\ CalledMods \cap A = {}
           /\ CalledMods \subseteq B
           /\ \A b \in B \cap L.pre.avail : b \in CalledMods \/ ReturnedEarlier(b)

\* one module already present, another one loaded
C4_Witness ==
    /\ Ran("present") /\ ~decl.test
    /\ Requested \cap EffPresent # {}
    /\ CalledMods # {}
    /\ L.out.yes # <<>>

\* C5: present on a list gives the result, the changes and the collaborator
\* calls it gives on the list without its duplicates; when every requested
\* name is current it returns True with nothing done.
C5_DuplicatesIrrelevant ==
    Ran("present") =>
        LET nodup == present([decl EXCEPT !.mods = Dedup(decl.mods)],
                             L.pre.loaded, L.pre.persisted, L.pre.avail,
                             L.order, L.resp)
        IN /\ L.out.result = nodup.result
           /\ L.out.changes = nodup.changes
           /\ L.out.calls = nodup.calls
           /\ (Requested \subseteq EffPresent) =>
                 L.out.result = ResTrue /\ L.out.calls = <<>>

\* the requested modules that are loaded but not persisted, when the pass is
\* a present with persist set and dry-run off
LoadedNotPersisted ==
    IF Ran("present") /\ decl.persist /\ ~decl.test
    THEN (Requested \cap L.pre.loaded) \ L.pre.persisted
    ELSE {}

CalledWithPersist(m) ==
    \E i \in CallIdx : L.out.calls[i].mod = m /\ L.out.calls[i].persist = TRUE

\* C6 as stated: present with persist, dry-run off, does not report a loaded
\* but not persisted module as already present and calls the loader for it
\* with persist set.
C6_ReloadsUnpersisted ==
    \A m \in LoadedNotPersisted :
        m \notin L.out.satisfied /\ CalledWithPersist(m)

\* C6 amended: it does not report the module as already present; if the
\* module is available the loader is called for it with persist set, unless
\* an earlier loader call of the pass returned it; if it is not available
\* the loader is not called for it and the result is False.
C6_ReloadsUnpersistedIfAvailable ==
    \A m \in LoadedNotPersisted :
        /\ m \notin L.out.satisfied
        /\ m \in L.pre.avail =>
              /\ CalledWithPersist(m) \/ ReturnedEarlier(m)
              /\ ~(CalledWithPersist(m) /\ ReturnedEarlier(m))
        /\ m \notin L.pre.avail =>
              /\ m \notin CalledMods
              /\ m \in L.out.unavailable
              /\ L.out.result = ResFalse

\* a loaded, available, not persisted module for which the loader was called
C6_Witness ==
    \E m \in LoadedNotPersisted : m \in L.pre.avail /\ CalledWithPersist(m)

\* C7: absent with dry-run off calls the unloader exactly once, with
\* (module, persist, comment), for each module of requested /\ current and
\* for no other, whatever the earlier calls returned; when there is none it
\* calls nothing and returns True, no changes, and "already removed".
C7_UnloadsExactlyCurrent ==
    (Ran("absent") /\ ~decl.test) =>
        LET T == Requested \cap EffAbsent
        IN /\ CalledMods = T
           /\ Len(L.out.calls) = Cardinality(T)
           /\ \A i \in CallIdx : /\ L.out.calls[i].persist = decl.persist
                                 /\ L.out.calls[i].comment = decl.comment
           /\ T = {} =>
                 /\ L.out.result = ResTrue
                 /\ DOMAIN L.out.changes = {}
                 /\ Len(L.out.comment) = 1
                 /\ L.out.comment[1].text \in
                       {"Kernel module {} is already removed",
                        "Kernel modules {} are already removed"}
                 /\ L.out.comment[1].mods = NormMods(decl)

\* an unload call made after an earlier unload call had failed
C7_Witness ==
    /\ Ran("absent") /\ ~decl.test
    /\ \E i, j \in CallIdx : i < j /\ CallFailed(i)
    /\ \E m \in Requested : m \in L.pre.persisted \ L.pre.loaded /\ m \in CalledMods

\* the modules the loop skipped: in the loop's order, never passed to the loader
Skipped == SetOf(L.order) \ CalledMods

\* C8: within one present (dry-run off) the loader is called at most once
\* per module and never for a module an earlier call of the pass returned;
\* a module skipped for that reason is counted as loaded, has its "loaded"
\* entry, and result is True unless something else failed.  With
\* mods = [a, b], load(a) -> [a], load(b) -> [a, b, c] the pass returns
\* changes {a, b, c: loaded} and True.
C8_DependencySkip ==
    (Ran("present") /\ ~decl.test) =>
        /\ \A i, j \in CallIdx :
              i < j => /\ L.out.calls[i].mod # L.out.calls[j].mod
                       /\ L.out.calls[j].mod \notin Returned(i)
        /\ \A m \in Skipped :
              /\ m \in SetOf(L.out.yes)
              /\ m \in DOMAIN L.out.changes /\ L.out.changes[m] = "loaded"
        /\ (L.out.unavailable = {} /\ \A i \in CallIdx : ~CallFailed(i)) =>
              L.out.result = ResTrue
        /\ ( /\ NormMods(decl) = <<"a", "b">>
             /\ SetOf(L.order) = {"a", "b"}
             /\ L.resp["a"] = ListResp(<<"a">>)
             /\ L.resp["b"] = ListResp(<<"a", "b", "c">>) ) =>
              /\ L.out.changes = [m \in {"a", "b", "c"} |-> "loaded"]
              /\ L.out.result = ResTrue

\* the scenario, iterated b first: a is skipped
C8_Witness ==
    /\ Ran("present") /\ ~decl.test
    /\ NormMods(decl) = <<"a", "b">>
    /\ L.order = <<"b", "a">>
    /\ L.resp["a"] = ListResp(<<"a">>)
    /\ L.resp["b"] = ListResp(<<"a", "b", "c">>)
    /\ Skipped = {"a"}
    /\ L.out.result = ResTrue

\* what an observer gets from a pass of present
Observed(out) ==
    [result |-> out.result, changes |-> out.changes,
     yes |-> SetOf(out.yes), no |-> SetOf(out.no),
     failed |-> {out.failed[i].mod : i \in 1..Len(out.failed)}]

SameInEveryOrder ==
    \A o \in Orders(SetOf(L.order)) :
        Observed(present(decl, L.pre.loaded, L.pre.persisted, L.pre.avail,
                         o, L.resp)) = Observed(L.out)

\* no answer of the loader names another module the loop iterates over
NoCrossLoad ==
    \A m \in SetOf(L.order) :
        L.resp[m].isList => SetOf(L.resp[m].val) \cap SetOf(L.order) \subseteq {m}

\* C9 as stated: for a fixed loader response function and inventory, every
\* iteration order gives the same result, changes, and loaded / failed sets.
C9_OrderInsignificant ==
    (Ran("present") /\ ~decl.test) => SameInEveryOrder

\* C9 amended: the same, when no loader response names another module that
\* the loop iterates over.
C9_OrderInsignificantNoCrossLoad ==
    (Ran("present") /\ ~decl.test /\ NoCrossLoad) => SameInEveryOrder

\* two modules iterated, one loaded with a dependency, the other failed
C9_Witness ==
    /\ Ran("present") /\ ~decl.test /\ NoCrossLoad
    /\ Len(L.order) = 2
    /\ L.out.result = ResFalse
    /\ "c" \in DOMAIN L.out.changes

\* C10 as stated: every module counted as loaded has a "loaded" entry in
\* changes, and every key of changes was returned by a loader call.
C10_ChangesConsistent ==
    (Ran("present") /\ ~decl.test) =>
        /\ \A m \in SetOf(L.out.yes) :
              m \in DOMAIN L.out.changes /\ L.out.changes[m] = "loaded"
        /\ \A k \in DOMAIN L.out.changes : \E i \in CallIdx : k \in Returned(i)

\* the loader call made for m returned a non-empty list without m
OwnCallOmits(m) ==
    \E i \in CallIdx : /\ L.out.calls[i].mod = m
                       /\ Returned(i) # {}
                       /\ m \notin Returned(i)

\* C10 amended: every module counted as loaded has a "loaded" entry in
\* changes unless the loader call made for it returned a non-empty list that
\* does not name it, and every key of changes was returned by a loader call.
C10_ChangesConsistentUnlessOmitted ==
    (Ran("present") /\ ~decl.test) =>
        /\ \A m \in SetOf(L.out.yes) :
              \/ m \in DOMAIN L.out.changes /\ L.out.changes[m] = "loaded"
              \/ OwnCallOmits(m)
        /\ \A k \in DOMAIN L.out.changes : \E i \in CallIdx : k \in Returned(i)

\* a module counted as loaded without a loader call of its own
C10_Witness ==
    /\ Ran("present") /\ ~decl.test
    /\ Skipped # {}
    /\ \A m \in SetOf(L.out.yes) : m \in DOMAIN L.out.changes

====
